---- MODULE Spec2Model ----
\* Model of src/main.py: the caption parser (parse_timedtext), the clip
\* suggester (suggest_clips_from_segments) and the /suggest_clips handler.
\*
\* Time is counted in ticks, TicksPerCenti ticks to 0.01 s, so that round(x, 2)
\* is a real conversion (the nearest multiple of TicksPerCenti ticks) and never
\* meets an exact half.  Scores are kept exactly, scaled by ScoreScale.
\* Strings are sequences of one-character strings.
EXTENDS Integers, Sequences, FiniteSets, TLC

\* ---------------------------------------------------------------- units

TicksPerCenti == 3
TicksPerSec == 100 * TicksPerCenti
Sec(s) == s * TicksPerSec
\* score * ScoreScale is an integer: score = kw_score - |dur - mid| / 10.0
ScoreScale == 20 * TicksPerSec

\* ---------------------------------------------------------------- bounds

MaxSegs == 3
MaxTopK == 2

\* ---------------------------------------------------------------- strings

Upper == <<"A","B","C","D","E","F","G","H","I","J","K","L","M",
           "N","O","P","Q","R","S","T","U","V","W","X","Y","Z">>
LowerOf == <<"a","b","c","d","e","f","g","h","i","j","k","l","m",
             "n","o","p","q","r","s","t","u","v","w","x","y","z">>

\* str.lower(), one character
LowerChar(ch) ==
  IF \E x \in 1..Len(Upper) : Upper[x] = ch
  THEN LowerOf[CHOOSE x \in 1..Len(Upper) : Upper[x] = ch]
  ELSE ch

\* str.lower()
Lower(s) == [x \in 1..Len(s) |-> LowerChar(s[x])]

\* `needle in hay` on strings
Contains(hay, needle) ==
  \E o \in 0..(Len(hay) - Len(needle)) :
    SubSeq(hay, o + 1, o + Len(needle)) = needle

Whitespace == {" ", "\n", "\t", "\r"}

\* str.strip()
RECURSIVE LStrip(_)
LStrip(s) ==
  IF s # <<>> /\ Head(s) \in Whitespace THEN LStrip(Tail(s)) ELSE s

RECURSIVE RStrip(_)
RStrip(s) ==
  IF s # <<>> /\ s[Len(s)] \in Whitespace
  THEN RStrip(SubSeq(s, 1, Len(s) - 1)) ELSE s

Strip(s) == LStrip(RStrip(s))

\* " ".join(parts)
RECURSIVE Join(_)
Join(parts) ==
  IF parts = <<>> THEN <<>>
  ELSE IF Len(parts) = 1 THEN parts[1]
  ELSE parts[1] \o <<" ">> \o Join(Tail(parts))

\* re.search(r"[.!?]", text)
HasTerminal(text) == \E x \in 1..Len(text) : text[x] \in {".", "!", "?"}

\* ---------------------------------------------------------------- numbers

Abs(x) == IF x < 0 THEN 0 - x ELSE x
Max(a, b) == IF a >= b THEN a ELSE b

\* round(x, 2): the nearest multiple of 0.01 s, an exact half going to the
\* even multiple.
Round2(x) ==
  LET q == TicksPerCenti
      r == x % q
      lo == x - r
  IN  IF 2 * r < q THEN lo
      ELSE IF 2 * r > q THEN lo + q
      ELSE IF (lo \div q) % 2 = 0 THEN lo ELSE lo + q

\* ---------------------------------------------------------------- suggester

keywords == <<
      <<"s", "e", "c", "r", "e", "t">>,
      <<"t", "i", "p", "s">>,
      <<"h", "a", "c", "k">>,
      <<"m", "i", "s", "t", "a", "k", "e">>,
      <<"s", "t", "o", "r", "y">>,
      <<"c", "r", "a", "z", "y">>,
      <<"i", "n", "s", "a", "n", "e">>,
      <<"u", "n", "e", "x", "p", "e", "c", "t", "e", "d">>,
      <<"h", "o", "w", " ", "t", "o">>,
      <<"w", "h", "y">>,
      <<"w", "h", "a", "t">>,
      <<"t", "h", "i", "s", " ", "i", "s">>,
      <<"y", "o", "u", " ", "n", "e", "e", "d">>,
      <<"s", "t", "o", "p">>,
      <<"s", "t", "a", "r", "t">>,
      <<"l", "e", "a", "r", "n">>,
      <<"v", "i", "r", "a", "l">>,
      <<"t", "r", "i", "c", "k">>,
      <<"s", "t", "r", "a", "t", "e", "g", "y">>,
      <<"t", "r", "e", "n", "d">>,
      <<"m", "o", "n", "e", "y">>,
      <<"g", "r", "o", "w", "t", "h">>,
      <<"w", "i", "n">>,
      <<"b", "e", "s", "t">> >>

\* the keywords found in combined.lower() (low is bound to the lowered text,
\* which is so computed once)
KwHits(combined) ==
  UNION { {x \in 1..Len(keywords) : Contains(low, keywords[x])} :
          low \in {Lower(combined)} }

\* a slip: one point per keyword
KwScoreOnePer(combined) == Cardinality(KwHits(combined))

\* kw_score = sum(2 for k in keywords if k in combined.lower())
KwScore(combined) == 2 * Cardinality(KwHits(combined))

\* length_penalty = abs(dur - (min_len + max_len) / 2) / 10.0, times ScoreScale
LengthPenalty(dur, minl, maxl) == Abs(2 * dur - (minl + maxl))

\* score = kw_score - length_penalty, times ScoreScale
Score(combined, dur, minl, maxl) ==
  KwScore(combined) * ScoreScale - LengthPenalty(dur, minl, maxl)

\* segments[j + 1]["start"] - segments[j]["end"] > 0.6
PauseTicks == (6 * TicksPerSec) \div 10

\* Segments are indexed from 0 as in the code: Seg(segs, j) is segments[j].
Seg(segs, x) == segs[x + 1]

\* a slip: the window is not held below max_len
InWindowNoMax(segs, jj, len, st, maxl) == jj < len

\* the condition of the inner while loop
InWindow(segs, jj, len, st, maxl) ==
  jj < len /\ Seg(segs, jj).end - st < maxl

\* the break condition: terminal punctuation, or a pause before the next segment
BreakHere(segs, jj, len) ==
  \/ HasTerminal(Seg(segs, jj).text)
  \/ (jj + 1 < len /\ Seg(segs, jj + 1).start - Seg(segs, jj).end > PauseTicks)

\* the candidate recorded for the window segments[ii..jj]; wi and wj note that
\* window and are read by the properties only
Candidate(segs, ii, jj, st, wtext, minl, maxl) ==
  [ start    |-> Round2(st),
    end      |-> Round2(Seg(segs, jj).end),
    duration |-> Round2(Seg(segs, jj).end - st),
    text     |-> Strip(Join(wtext)),
    score    |-> Score(Join(wtext), Seg(segs, jj).end - st, minl, maxl),
    wi       |-> ii,
    wj       |-> jj ]

\* a slip: the cursor jumps to j only
AdvanceCursorStuck(ii, jj) == jj

\* i = max(i + 1, j)
AdvanceCursor(ii, jj) == Max(ii + 1, jj)

\* a slip: an unstable sort, a later equal score moving ahead
RECURSIVE InsertDescUnstable(_, _)
InsertDescUnstable(sorted, c) ==
  IF sorted = <<>> THEN <<c>>
  ELSE IF Head(sorted).score > c.score
       THEN <<Head(sorted)>> \o InsertDescUnstable(Tail(sorted), c)
       ELSE <<c>> \o sorted

\* candidates.sort(key=score, reverse=True): stable, descending
RECURSIVE InsertDesc(_, _)
InsertDesc(sorted, c) ==
  IF sorted = <<>> THEN <<c>>
  ELSE IF Head(sorted).score >= c.score
       THEN <<Head(sorted)>> \o InsertDesc(Tail(sorted), c)
       ELSE <<c>> \o sorted

RECURSIVE SortDesc(_)
SortDesc(cs) ==
  IF cs = <<>> THEN <<>>
  ELSE InsertDesc(SortDesc(SubSeq(cs, 1, Len(cs) - 1)), cs[Len(cs)])

\* a slip: u["start"] written for u["end"]
OverlapsStartTypo(c, u) == ~(c.end <= u.start \/ c.start >= u.start)

\* a slip: closed intervals, clips that only touch count as overlapping
OverlapsClosed(c, u) == ~(c.end < u.start \/ c.start > u.end)

\* not (c["end"] <= u["start"] or c["start"] >= u["end"])
Overlaps(c, u) == ~(c.end <= u.start \/ c.start >= u.end)

\* the scan of `used` for one candidate
OverlapsUsed(c, us) == \E x \in 1..Len(us) : Overlaps(c, us[x])

\* a slip: one clip too many
FullOffByOne(sel, topk) == Len(sel) > topk

\* len(selected) >= top_k
Full(sel, topk) == Len(sel) >= topk

\* ---------------------------------------------------------------- state

VARIABLES
  segments,     \* the argument of suggest_clips_from_segments
  min_len, max_len, top_k,
  pc,           \* the position in the code
  n, i, j, window_text, start_t, candidates,
  selected, used,
  k,            \* position of the `for c in candidates` loop, from 1
  video_id, url, fetched, xml_text, response, calls

scanVars == <<n, i, j, window_text, start_t, candidates>>
selVars == <<selected, used, k>>
argVars == <<segments, min_len, max_len, top_k>>
reqVars == <<video_id, url, fetched, xml_text, response, calls>>
vars == <<argVars, pc, scanVars, selVars, reqVars>>

\* Python's None, for a string; for a url, a response body, a response
None == "None"
NoUrl == [kind |-> "None"]
NoBody == [kind |-> "None"]
NoResponse == [status |-> 0]

\* ------------------------------------------------- suggest_clips_from_segments

\* entry: `if not segments: return []`, else the initialisation of the scan
Enter ==
  /\ pc = "call"
  /\ IF segments = <<>>
     THEN /\ selected' = <<>>
          /\ pc' = "return"
          /\ UNCHANGED <<scanVars, used, k>>
     ELSE /\ candidates' = <<>>
          /\ n' = Len(segments)
          /\ i' = 0
          /\ pc' = "outer"
          /\ UNCHANGED <<j, window_text, start_t, selVars>>
  /\ UNCHANGED <<argVars, reqVars>>

\* `while i < n:` taken: start a window
OuterStart ==
  /\ pc = "outer"
  /\ i < n
  /\ j' = i
  /\ window_text' = <<>>
  /\ start_t' = Seg(segments, i).start
  /\ pc' = "inner"
  /\ UNCHANGED <<argVars, n, i, candidates, selVars, reqVars>>

\* one iteration of the inner while loop: either the window is closed and
\* recorded (break), or j moves on
InnerStep ==
  /\ pc = "inner"
  /\ InWindow(segments, j, n, start_t, max_len)
  /\ window_text' = Append(window_text, Seg(segments, j).text)
  /\ IF /\ Seg(segments, j).end - start_t >= min_len
        /\ BreakHere(segments, j, n)
     THEN /\ candidates' = Append(candidates,
                 Candidate(segments, i, j, start_t, window_text', min_len, max_len))
          /\ pc' = "advance"
          /\ j' = j
     ELSE /\ j' = j + 1
          /\ UNCHANGED <<candidates, pc>>
  /\ UNCHANGED <<argVars, n, i, start_t, selVars, reqVars>>

\* the inner loop condition fails
InnerExit ==
  /\ pc = "inner"
  /\ ~InWindow(segments, j, n, start_t, max_len)
  /\ pc' = "advance"
  /\ UNCHANGED <<argVars, scanVars, selVars, reqVars>>

\* i = max(i + 1, j)
Advance ==
  /\ pc = "advance"
  /\ i' = AdvanceCursor(i, j)
  /\ pc' = "outer"
  /\ UNCHANGED <<argVars, n, j, window_text, start_t, candidates, selVars, reqVars>>

\* `while i < n:` fails: sort the candidates, start the selection
OuterExit ==
  /\ pc = "outer"
  /\ i >= n
  /\ candidates' = SortDesc(candidates)
  /\ selected' = <<>>
  /\ used' = <<>>
  /\ k' = 1
  /\ pc' = "select"
  /\ UNCHANGED <<argVars, n, i, j, window_text, start_t, reqVars>>

\* one iteration of `for c in candidates:`
SelectStep ==
  /\ pc = "select"
  /\ k <= Len(candidates)
  /\ IF Full(selected, top_k)
     THEN /\ pc' = "return"
          /\ UNCHANGED selVars
     ELSE /\ k' = k + 1
          /\ pc' = pc
          /\ IF OverlapsUsed(candidates[k], used)
             THEN UNCHANGED <<selected, used>>
             ELSE /\ selected' = Append(selected, candidates[k])
                  /\ used' = Append(used, [start |-> candidates[k].start,
                                           end |-> candidates[k].end])
  /\ UNCHANGED <<argVars, scanVars, reqVars>>

\* the candidates are exhausted: `return selected`
SelectExit ==
  /\ pc = "select"
  /\ k > Len(candidates)
  /\ pc' = "return"
  /\ UNCHANGED <<argVars, scanVars, selVars, reqVars>>

NextCall ==
  \/ Enter
  \/ OuterStart
  \/ InnerStep
  \/ InnerExit
  \/ Advance
  \/ OuterExit
  \/ SelectStep
  \/ SelectExit

\* ------------------------------------------------- inputs of a direct call

Segment(st, dur, text) ==
  [start |-> st, dur |-> dur, end |-> st + dur, text |-> text]

TextHello == <<"h", "e", "l", "l", "o", " ", "w", "o", "r", "l", "d">>
TextSecret == <<"t", "h", "i", "s", " ", "i", "s", " ", "a", " ", "s", "e", "c",
                "r", "e", "t", " ", "t", "r", "i", "c", "k", ".">>
TextWhy == <<"w", "h", "y">>
TextStop == <<"S", "t", "o", "p", ".">>
TextOk == <<"o", "k", ".">>

SegPool ==
  { Segment(0, Sec(10), TextHello),
    Segment(Sec(10), Sec(15), TextSecret),
    Segment(0, Sec(20), TextWhy),
    Segment(0, Sec(20), TextStop),
    Segment(Sec(10), Sec(20), TextStop),
    Segment(Sec(20) + 1, Sec(20), TextStop),
    Segment(Sec(41), 0, TextOk) }

RECURSIVE SeqsUpTo(_, _)
SeqsUpTo(S, len) ==
  IF len = 0 THEN {<<>>}
  ELSE LET shorter == SeqsUpTo(S, len - 1)
       IN  shorter \cup {Append(q, x) : q \in shorter, x \in S}

Lens == {<<Sec(20), Sec(60)>>, <<0, Sec(25)>>}
TopKs == {-1} \cup (0..MaxTopK)

InitScratch ==
  /\ n = 0 /\ i = 0 /\ j = 0
  /\ window_text = <<>> /\ start_t = 0 /\ candidates = <<>>
  /\ selected = <<>> /\ used = <<>> /\ k = 1

Init ==
  /\ segments \in SeqsUpTo(SegPool, MaxSegs)
  /\ \E l \in Lens : min_len = l[1] /\ max_len = l[2]
  /\ top_k \in TopKs
  /\ pc = "call"
  /\ InitScratch
  /\ video_id = None /\ url = NoUrl /\ fetched = <<>> /\ xml_text = NoBody
  /\ response = NoResponse /\ calls = <<>>

Spec == Init /\ [][NextCall]_vars

\* ---------------------------------------------------------------- parser

Digits == <<"0", "1", "2", "3", "4", "5", "6", "7", "8", "9">>
IsDigit(ch) == \E d \in 1..Len(Digits) : Digits[d] = ch
DigitVal(ch) == (CHOOSE d \in 1..Len(Digits) : Digits[d] = ch) - 1

RECURSIVE Num(_)
Num(ds) ==
  IF ds = <<>> THEN 0 ELSE 10 * Num(SubSeq(ds, 1, Len(ds) - 1)) + DigitVal(ds[Len(ds)])

\* float(a) for a plain decimal literal of at most two fraction digits
\* (digits, optionally a point and digits); every other string is rejected,
\* as float() rejects the non-numbers of AttrPool.  val is in ticks.
ParseFloat(a) ==
  LET dots == {x \in 1..Len(a) : a[x] = "."}
      dot  == IF dots = {} THEN Len(a) + 1 ELSE CHOOSE x \in dots : TRUE
      ip   == SubSeq(a, 1, dot - 1)
      fp   == SubSeq(a, dot + 1, Len(a))
      fp2  == SubSeq(fp \o <<"0", "0">>, 1, 2)
      ok   == /\ Cardinality(dots) <= 1
              /\ \A x \in 1..Len(a) : IsDigit(a[x]) \/ a[x] = "."
              /\ Len(ip) + Len(fp) >= 1
              /\ Len(fp) <= 2
  IN  IF ok THEN [ok |-> TRUE, val |-> (100 * Num(ip) + Num(fp2)) * TicksPerCenti]
      ELSE [ok |-> FALSE, val |-> 0]

\* node.attrib.get(name, "0")
AttrGet(attr) == IF attr.has THEN attr.val ELSE <<"0">>

\* (node.text or "").replace("\n", " ")
NodeText(text) ==
  LET t == IF text.has THEN text.val ELSE <<>>
  IN  [x \in 1..Len(t) |-> IF t[x] = "\n" THEN " " ELSE t[x]]

\* the body of the for loop raises (float() fails) on this element
ElemRaises(e) ==
  \/ ~ParseFloat(AttrGet(e.start)).ok
  \/ ~ParseFloat(AttrGet(e.dur)).ok

\* the segment appended for one <text> element
ElemSegment(e) ==
  LET st == ParseFloat(AttrGet(e.start)).val
      du == ParseFloat(AttrGet(e.dur)).val
  IN  [start |-> st, dur |-> du, end |-> st + du, text |-> NodeText(e.text)]

\* parse_timedtext: any exception (ET.fromstring on a malformed or missing
\* document, float() on an attribute) is caught by the one handler and gives []
ParseTimedtext(body) ==
  IF body.kind # "xml" THEN <<>>
  ELSE IF \E x \in 1..Len(body.elems) : ElemRaises(body.elems[x]) THEN <<>>
  ELSE [x \in 1..Len(body.elems) |-> ElemSegment(body.elems[x])]

\* ---------------------------------------------------------------- handler

\* Python truthiness of an Optional[str]
FalsyStr(x) == x = None \/ x = ""

\* parsed.netloc.endswith("youtube.com")
IsYoutubeHost(h) ==
  h \in {"youtube.com", "www.youtube.com", "m.youtube.com", "notyoutube.com"}

\* path.strip("/"), the path given as its components after the leading "/"
RECURSIVE StripSlashes(_)
StripSlashes(path) ==
  IF path = <<>> THEN ""
  ELSE IF Head(path) = "" THEN StripSlashes(Tail(path))
  ELSE IF path[Len(path)] = "" THEN StripSlashes(SubSeq(path, 1, Len(path) - 1))
  ELSE IF Len(path) = 1 THEN path[1]
  ELSE path[1] \o "/" \o StripSlashes(Tail(path))

\* extract_video_id on the parsed url: path is the list of the components
\* after the leading "/", v the first value of the query's v (None: no v)
ExtractVideoId(u) ==
  IF IsYoutubeHost(u.netloc) /\ u.path = <<"watch">> THEN u.v
  ELSE IF IsYoutubeHost(u.netloc) /\ Len(u.path) >= 2 /\ u.path[1] = "shorts"
       THEN u.path[Len(u.path)]
  ELSE IF u.netloc = "youtu.be" THEN StripSlashes(u.path)
  ELSE None

\* `if url and not video_id: video_id = extract_video_id(url)`
ResolveVideoId(vid, u) ==
  IF u.kind = "url" /\ FalsyStr(vid) THEN ExtractVideoId(u) ELSE vid

\* one requests.get answer passes `r.status_code == 200 and r.text.strip()`
Usable(r) == r.status = 200 /\ r.body.kind \in {"xml", "malformed"}

\* fetch_transcript_xml: the first usable answer of the endpoints, in order;
\* a requests.get that raises ends the call with that exception
RECURSIVE FetchTranscriptXml(_)
FetchTranscriptXml(answers) ==
  IF answers = <<>> THEN [raised |-> FALSE, body |-> NoBody]
  ELSE IF Head(answers).status = 0 THEN [raised |-> TRUE, body |-> NoBody]
  ELSE IF Usable(Head(answers)) THEN [raised |-> FALSE, body |-> Head(answers).body]
  ELSE FetchTranscriptXml(Tail(answers))

\* a slip: the check for missing markup is left out
NoMarkupNever(body) == FALSE

\* `if not xml_text`: fetch_transcript_xml returns None or a text that is
\* not blank, so None is the only falsy value that gets here
NoMarkup(body) == body.kind = "None"

\* lines = [s for s in segments if s.start >= c.start and s.end <= c.end]
RECURSIVE Lines(_, _)
Lines(segs, c) ==
  IF segs = <<>> THEN <<>>
  ELSE (IF Head(segs).start >= c.start /\ Head(segs).end <= c.end
        THEN <<Head(segs)>> ELSE <<>>) \o Lines(Tail(segs), c)

\* the clip of the response for one selected candidate
Result(segs, c) ==
  [start |-> c.start, end |-> c.end, duration |-> c.duration, text |-> c.text,
   lines |-> Lines(segs, c)]

DefaultMinLen == Sec(20)
DefaultMaxLen == Sec(60)

\* lines 201-204: resolve the video id or reject the request
ReqResolve ==
  /\ pc = "req"
  /\ video_id' = ResolveVideoId(video_id, url)
  /\ IF FalsyStr(video_id')
     THEN /\ response' = [status |-> 400, detail |-> "Provide video_id or url"]
          /\ pc' = "req_done"
     ELSE /\ pc' = "req_fetch"
          /\ UNCHANGED response
  /\ UNCHANGED <<argVars, scanVars, selVars, url, fetched, xml_text, calls>>

\* lines 206-208: fetch; no markup answers available=false
ReqFetch ==
  /\ pc = "req_fetch"
  /\ calls' = Append(calls, "fetch")
  /\ LET r == FetchTranscriptXml(fetched)
     IN  IF r.raised
         THEN /\ response' = [status |-> 500]
              /\ pc' = "req_done"
              /\ UNCHANGED xml_text
         ELSE /\ xml_text' = r.body
              /\ IF NoMarkup(r.body)
                 THEN /\ response' = [status |-> 200, video_id |-> video_id,
                                      clips |-> <<>>, available |-> FALSE]
                      /\ pc' = "req_done"
                 ELSE /\ pc' = "req_parse"
                      /\ UNCHANGED response
  /\ UNCHANGED <<argVars, scanVars, selVars, video_id, url, fetched>>

\* line 210
ReqParse ==
  /\ pc = "req_parse"
  /\ calls' = Append(calls, "parse")
  /\ segments' = ParseTimedtext(xml_text)
  /\ pc' = "req_suggest"
  /\ UNCHANGED <<min_len, max_len, top_k, scanVars, selVars,
                 video_id, url, fetched, xml_text, response>>

\* line 211: the call, min_len and max_len at their defaults
ReqSuggest ==
  /\ pc = "req_suggest"
  /\ calls' = Append(calls, "suggest")
  /\ min_len' = DefaultMinLen
  /\ max_len' = DefaultMaxLen
  /\ pc' = "call"
  /\ UNCHANGED <<segments, top_k, scanVars, selVars,
                 video_id, url, fetched, xml_text, response>>

\* lines 213-225: attach the lines and answer
ReqRespond ==
  /\ pc = "return"
  /\ response' = [status |-> 200, video_id |-> video_id,
                  clips |-> [x \in 1..Len(selected) |-> Result(segments, selected[x])],
                  available |-> TRUE]
  /\ pc' = "req_done"
  /\ UNCHANGED <<argVars, scanVars, selVars, video_id, url, fetched, xml_text, calls>>

NextReq ==
  \/ ReqResolve
  \/ ReqFetch
  \/ ReqParse
  \/ ReqSuggest
  \/ ReqRespond
  \/ NextCall

\* ------------------------------------------------- inputs of a request

MaxElems == 2

Attr(chars) == [has |-> TRUE, val |-> chars]
Absent == [has |-> FALSE, val |-> <<>>]

ElemPool ==
  { [start |-> Attr(<<"0">>), dur |-> Attr(<<"2", "0">>), text |-> Attr(TextStop)],
    [start |-> Attr(<<"2", "0", ".", "5">>), dur |-> Attr(<<"2", "5">>),
     text |-> Attr(<<"w", "h", "y", "\n", "n", "o", "t", "?">>)],
    [start |-> Absent, dur |-> Absent, text |-> Absent],
    [start |-> Attr(<<"a", "b", "c">>), dur |-> Attr(<<"2", "0">>),
     text |-> Attr(TextStop)] }

Xml(elems) == [kind |-> "xml", elems |-> elems]
Malformed == [kind |-> "malformed"]
Blank == [kind |-> "blank"]

Bodies == {Malformed} \cup {Xml(es) : es \in SeqsUpTo(ElemPool, MaxElems)}

Answer(status, body) == [status |-> status, body |-> body]
NotFound == Answer(404, NoBody)
Raises == Answer(0, NoBody)

\* the answers of the four endpoints, in the order they are asked
Fetches ==
  { <<NotFound, NotFound, NotFound, NotFound>>,
    <<Answer(200, Blank), NotFound, Answer(200, Blank), NotFound>>,
    <<NotFound, Raises, NotFound, NotFound>> }
  \cup {<<Answer(200, b), NotFound, NotFound, NotFound>> : b \in Bodies}
  \cup {<<NotFound, Answer(200, Blank), Answer(200, b), Raises>> : b \in Bodies}

Url(netloc, path, v) == [kind |-> "url", netloc |-> netloc, path |-> path, v |-> v]

Urls ==
  { NoUrl,
    Url("www.youtube.com", <<"watch">>, "vid"),
    Url("www.youtube.com", <<"watch">>, None),
    Url("www.youtube.com", <<"shorts", "">>, None),
    Url("youtu.be", <<"vid", "">>, None),
    Url("example.com", <<"watch">>, "vid") }

VideoIds == {None, "", "vid"}

InitReq ==
  /\ video_id \in VideoIds
  /\ url \in Urls
  /\ top_k \in TopKs
  /\ fetched \in Fetches
  /\ xml_text = NoBody
  /\ response = NoResponse
  /\ calls = <<>>
  /\ segments = <<>> /\ min_len = 0 /\ max_len = 0
  /\ pc = "req"
  /\ InitScratch

SpecReq == InitReq /\ [][NextReq]_vars

\* The execution is sequential: a call that can take a step takes it.
LiveSpec == Init /\ [][NextCall]_vars /\ WF_vars(NextCall)

\* ---------------------------------------------------------------- properties

Range(q) == {q[x] : x \in 1..Len(q)}

\* the half-open overlap test of the specification
HalfOpenOverlap(a, b) == ~(a.end <= b.start \/ a.start >= b.end)

\* end - start of the window a candidate was cut from, unrounded
WindowDuration(c) == Seg(segments, c.wj).end - Seg(segments, c.wi).start

Returned == pc = "return"

\* C1: the clips returned by one call are pairwise non-overlapping: for every
\* two distinct returned clips a and b, a.end <= b.start or a.start >= b.end.
C1_NonOverlapping ==
  \A x, y \in 1..Len(selected) :
    x # y => (selected[x].end <= selected[y].start
              \/ selected[x].start >= selected[y].end)

\* a call returned two clips and dropped an overlapping candidate
C1_Witness ==
  /\ Returned
  /\ Len(selected) >= 2
  /\ \E c \in Range(candidates) :
       c \notin Range(selected) /\ \E u \in Range(selected) : HalfOpenOverlap(c, u)

\* C2 as stated: the returned list is never longer than top_k, for every
\* integer top_k, negative ones included.
C2_Original == Returned => Len(selected) <= top_k

\* C2 amended: the returned list is never longer than top_k when top_k >= 0,
\* and is empty when top_k <= 0 (so its length 0 exceeds a negative top_k).
C2_LengthBound ==
  pc \in {"select", "return"} =>
    /\ top_k >= 0 => Len(selected) <= top_k
    /\ top_k <= 0 => selected = <<>>

\* the selection stopped at top_k clips with candidates left over
C2_Witness ==
  /\ Returned
  /\ top_k >= 1
  /\ Len(selected) = top_k
  /\ k <= Len(candidates)

\* C3: the returned clips are in descending score order, clips of equal score
\* in the order their windows were generated (smaller i first); and with
\* top_k >= 1 and a candidate generated, the first returned clip is the
\* earliest generated candidate of maximal score.
C3_SortedStable ==
  Returned =>
    /\ \A x, y \in 1..Len(selected) :
         x < y => \/ selected[x].score > selected[y].score
                  \/ /\ selected[x].score = selected[y].score
                     /\ selected[x].wi < selected[y].wi
    /\ (top_k >= 1 /\ candidates # <<>>) =>
         /\ selected # <<>>
         /\ \A c \in Range(candidates) :
              \/ selected[1].score > c.score
              \/ selected[1].score = c.score /\ selected[1].wi <= c.wi

\* two clips of equal score were returned, and the best score was tied
C3_Witness ==
  /\ Returned
  /\ Len(selected) >= 2
  /\ selected[1].score = selected[2].score
  /\ \E c \in Range(candidates) : c.score < selected[1].score

\* C4: every emitted clip has min_len <= duration <= max_len, duration being
\* end - start of its window.
C4_DurationBounds ==
  \A c \in Range(candidates) \cup Range(selected) :
    min_len <= WindowDuration(c) /\ WindowDuration(c) <= max_len

\* a window of several segments was emitted, and another start emitted nothing
C4_Witness ==
  /\ Returned
  /\ \E c \in Range(selected) : c.wj > c.wi /\ WindowDuration(c) > min_len
  /\ Len(candidates) < n

C5Segments ==
  <<Segment(0, Sec(10), TextHello), Segment(Sec(10), Sec(15), TextSecret)>>

C5Input ==
  /\ segments = C5Segments
  /\ min_len = Sec(20)
  /\ max_len = Sec(60)
  /\ pc \in {"select", "return"}

C5Clip(c) ==
  /\ c.start = 0
  /\ c.end = Sec(25)
  /\ c.duration = Sec(25)
  /\ c.text = TextHello \o <<" ">> \o TextSecret

\* C5 as stated: on the two-segment input the one candidate has keyword
\* score 4 (matches "secret" and "trick"), length penalty 1.5 and score 2.5.
C5_Original ==
  C5Input =>
    /\ Len(candidates) = 1
    /\ C5Clip(candidates[1])
    /\ LengthPenalty(Sec(25), min_len, max_len) * 2 = 3 * ScoreScale
    /\ candidates[1].score + LengthPenalty(Sec(25), min_len, max_len) = 4 * ScoreScale
    /\ candidates[1].score * 2 = 5 * ScoreScale

\* C5 amended: on the two-segment input exactly one candidate is generated,
\* start 0, end 25, duration 25, text "hello world this is a secret trick.";
\* its keyword score is 6 (three matches: "secret", "this is", "trick"), its
\* length penalty 1.5 and its score 4.5.
C5_Scenario ==
  C5Input =>
    /\ Len(candidates) = 1
    /\ C5Clip(candidates[1])
    /\ LengthPenalty(Sec(25), min_len, max_len) * 2 = 3 * ScoreScale
    /\ candidates[1].score + LengthPenalty(Sec(25), min_len, max_len) = 6 * ScoreScale
    /\ candidates[1].score * 2 = 9 * ScoreScale

\* the scenario's call has returned its clip
C5_Witness ==
  /\ C5Input
  /\ Returned
  /\ top_k >= 1
  /\ Len(selected) = 1

\* the segment C6 expects of an element: an absent or unparseable attribute is 0
C6Expected(e) ==
  LET st == IF e.start.has /\ ParseFloat(e.start.val).ok
            THEN ParseFloat(e.start.val).val ELSE 0
      du == IF e.dur.has /\ ParseFloat(e.dur.val).ok
            THEN ParseFloat(e.dur.val).val ELSE 0
  IN  [start |-> st, dur |-> du, end |-> st + du, text |-> NodeText(e.text)]

\* C6: parse_timedtext on a well-formed document yields one segment per text
\* element in document order, an absent or unparseable start or dur counting
\* as 0 for that element only.
C6_OnePerElement ==
  (pc = "req_suggest" /\ xml_text.kind = "xml") =>
    /\ Len(segments) = Len(xml_text.elems)
    /\ \A x \in 1..Len(segments) : segments[x] = C6Expected(xml_text.elems[x])

\* C7: when the fetch yields no markup the response is available=false with
\* no clips and neither the parser nor the suggester ran; when no video id is
\* resolved the request is rejected before any fetch, parse or suggestion;
\* parsing and candidate generation happen only after a fetch returned markup.
C7_NoWorkWithoutMarkup ==
  /\ (pc = "req_done" /\ calls = <<"fetch">> /\ response.status = 200) =>
       /\ xml_text.kind = "None"
       /\ response = [status |-> 200, video_id |-> video_id,
                      clips |-> <<>>, available |-> FALSE]
  /\ (pc = "req_done" /\ xml_text.kind = "None" /\ response.status = 200) =>
       /\ response.available = FALSE
       /\ response.clips = <<>>
       /\ calls = <<"fetch">>
  /\ (pc = "req_done" /\ FalsyStr(video_id)) =>
       /\ response.status = 400
       /\ calls = <<>>
  /\ response.status = 400 => calls = <<>>
  /\ ("parse" \in Range(calls) \/ "suggest" \in Range(calls)
        \/ pc \in {"call", "outer", "inner", "advance", "select", "return"}) =>
       /\ calls[1] = "fetch"
       /\ xml_text.kind \in {"xml", "malformed"}
       /\ ~FalsyStr(video_id)

\* a request whose fetch found no captions has been answered
C7_Witness ==
  /\ pc = "req_done"
  /\ calls = <<"fetch">>
  /\ response.status = 200
  /\ response.available = FALSE

\* C8: every outer iteration strictly increases i, j never decreases and never
\* exceeds n, and the scan reaches i >= n and the call returns.
C8_Progress ==
  /\ [][pc = "advance" => i' > i]_vars
  /\ [][j' >= j /\ j' <= n']_vars
  /\ <>(Returned /\ (segments # <<>> => i >= n))

\* a scan over unordered segments, one of zero duration, has finished
C8_Witness ==
  /\ Returned
  /\ n >= 2
  /\ i >= n
  /\ \E x \in 1..Len(segments) : segments[x].dur = 0
  /\ \E x \in 1..(Len(segments) - 1) : segments[x + 1].start < segments[x].start

\* C9: once the window i..j is recorded, none of its segments starts a later
\* window, and no two candidates share a segment.
C9_NoSharedSegment ==
  /\ pc = "inner" => \A c \in Range(candidates) : ~(c.wi <= i /\ i <= c.wj)
  /\ \A c, d \in Range(candidates) :
       c # d => (c.wj < d.wi \/ d.wj < c.wi)

\* C10: when fewer than top_k clips are returned (top_k >= 1), every
\* candidate not returned overlaps a returned clip of score >= its own.
C10_Maximal ==
  (Returned /\ top_k >= 1 /\ Len(selected) < top_k) =>
    \A c \in Range(candidates) :
      c \notin Range(selected) =>
        \E u \in Range(selected) : HalfOpenOverlap(c, u) /\ u.score >= c.score

\* a call returned fewer than top_k clips and dropped a candidate
C10_Witness ==
  /\ Returned
  /\ top_k >= 2
  /\ Len(selected) < top_k
  /\ selected # <<>>
  /\ Len(candidates) > Len(selected)

====
